---- MODULE Spec2Model ----
(***************************************************************************)
(* Model of ntex's timeout middleware (ntex/src/util/timeout.rs) and of    *)
(* the one-shot Lazy future (ntex-service/src/lazy.rs), of TimeoutError's   *)
(* equality and rendering, and of the HTTP/1 upgrade placeholder           *)
(* (ntex/src/http/h1/upgrade.rs).                                          *)
(*                                                                         *)
(* Time is a discrete clock `now`.  A TimeoutService wraps an inner        *)
(* service S that is generic in the source: what S returns from            *)
(* poll_ready / poll_shutdown and when its futures complete are inputs     *)
(* chosen by the environment.                                              *)
(***************************************************************************)
EXTENDS Integers, Sequences, FiniteSets, TLC

\* ---------------------------------------------------------------- bounds
MaxTime == 3          \* the clock runs 0..MaxTime
MaxDur == 2           \* configured durations are 0..MaxDur
MaxServices == 1      \* TimeoutService values built in one behaviour
MaxCalls == 2         \* invocations (response futures) in one behaviour
MaxClones == 1        \* clones of TimeoutService values in one behaviour
MaxLazy == 2          \* Lazy futures created in one behaviour
MaxProbes == 3        \* poll_ready calls on one UpgradeHandler

\* const ZERO: time::Duration = time::Duration::from_millis(0)
ZERO == 0

Durations == 0..MaxDur
Errors == {"e1", "e2"}        \* payloads of S::Error
Values == {"v1", "v2"}        \* payloads of S::Response
Contexts == {"cx1", "cx2"}    \* task contexts handed to poll
Requests == {"r1", "r2"}      \* payloads of S::Request

\* ------------------------------------------------- std values (Poll, Result)
Pending == [tag |-> "Pending", val |-> "-"]
Ready(v) == [tag |-> "Ready", val |-> v]
Ok(v) == [tag |-> "Ok", val |-> v]
Err(e) == [tag |-> "Err", val |-> e]
None == [tag |-> "None", val |-> "-"]
Some(v) == [tag |-> "Some", val |-> v]
NotPolled == [tag |-> "NotPolled", val |-> "-"]
\* () as the value of a Poll<()>, and Ok(()) of a Result<(), E>
Unit == [tag |-> "Unit", val |-> "-"]
OkUnit == Ok("()")

\* enum TimeoutError<E> { Service(E), Timeout }
Service(e) == [tag |-> "Service", val |-> e]
Timeout == [tag |-> "Timeout", val |-> "-"]

\* what the inner service S may return
InnerReadyResults == {Pending, Ready(OkUnit)} \cup {Ready(Err(e)) : e \in Errors}
InnerShutdownResults == {Pending, Ready(Unit)}
\* the inner service's poll_shutdown as a function of the is_error flag
InnerShutdowns == [BOOLEAN -> InnerShutdownResults]
NoShutdown == [b \in BOOLEAN |-> NotPolled]
InnerOutcomes == {Ok(v) : v \in Values} \cup {Err(e) : e \in Errors}

VARIABLES
    now,        \* the clock
    transform,  \* the Timeout value: [timeout]
    services,   \* sequence of TimeoutService: [timeout, built, of]
    calls,      \* sequence of response futures returned by call
    last,       \* the last operation, what it saw and what it returned
    lazies,     \* sequence of Lazy: [f, args, polls]
    lazyLast,   \* the last Lazy operation and what it returned
    panicked,   \* the task has panicked (Lazy polled twice, unimplemented!())
    probe,      \* the last TimeoutError comparison or rendering and its result
    upgrade     \* the UpgradeHandler: [op, polls, out]

vars == <<now, transform, services, calls, last, lazies, lazyLast, panicked,
          probe, upgrade>>
timeoutVars == <<now, transform, services, calls, last>>
lazyVars == <<lazies, lazyLast, panicked>>
pureVars == <<probe, upgrade>>

\* no response future: not yet returned by call, or completed and dropped
NoCall ==
    [kind |-> "-", svc |-> 0, fut |-> None, sleep |-> None, callTime |-> 0]

NoEvent ==
    [op |-> "none", svc |-> 0, call |-> 0, is_error |-> FALSE,
     inner |-> NotPolled, sleep |-> NotPolled, out |-> NotPolled, polled |-> NoCall,
     shut |-> NoShutdown, timer |-> FALSE, order |-> <<>>,
     req |-> "-", innerCalls |-> <<>>]

\* ------------------------------------------------------------ construction
\* Timeout::new(timeout)
TimeoutNew(timeout) == [timeout |-> timeout]

\* mutant: a clone of a Timeout falls back to the disabled duration
TimeoutCloneZero(tr) == TimeoutNew(ZERO)

\* Clone for Timeout: Timeout::new(self.timeout)
TimeoutClone(tr) == TimeoutNew(tr.timeout)

\* TimeoutService { service, timeout }; `built` is the time of construction
\* and `of` the service it was cloned from (0: built, not cloned)
TimeoutServiceNew(timeout, at) == [timeout |-> timeout, built |-> at, of |-> 0]

\* #[derive(Clone)] for TimeoutService: clone of service s, made at time `at`
TimeoutServiceClone(srv, s, at) == [timeout |-> srv.timeout, built |-> at, of |-> s]

\* mutant: the service built by new_transform gets the default (zero) duration
NewTransformDefault(tr, at) == TimeoutServiceNew(ZERO, at)

\* Timeout::new_transform: TimeoutService { service, timeout: self.timeout }
NewTransformService(tr, at) == TimeoutServiceNew(tr.timeout, at)

\* mutant: the timer is armed one tick short of the configured duration
DelayForShort(duration, at) == Some(at + duration - 1)

\* delay_for(duration) started at `at`: a timer that is due at at + duration
DelayFor(duration, at) == Some(at + duration)

\* mutant: the timer never fires
DelayReadyNever(sleep, t, driven) == FALSE

\* a Delay is ready at time t once it is due and the timer driver has run
\* (driven): the driver fires a timer at or after its deadline, never before
DelayReady(sleep, t, driven) == sleep.tag = "Some" /\ driven /\ t >= sleep.val

\* Delay::poll at time t
DelayPoll(sleep, t, driven) ==
    IF DelayReady(sleep, t, driven) THEN Ready(Unit) ELSE Pending

\* the inner future S::Future: pending until the inner service completes it
FutNew == [state |-> Pending, readyAt |-> 0]
FutPoll(fut) == fut.state

\* mutant: no zero check, every call arms a timer
CallFutureAlwaysTimer(srv, s, at) ==
    [kind |-> "Left", svc |-> s, fut |-> FutNew,
     sleep |-> DelayFor(srv.timeout, at), callTime |-> at]

\* mutant: the timer counts from the construction of the service
CallFutureFromBuilt(srv, s, at) ==
    IF srv.timeout = ZERO
    THEN [kind |-> "Right", svc |-> s, fut |-> FutNew, sleep |-> None,
          callTime |-> at]
    ELSE [kind |-> "Left", svc |-> s, fut |-> FutNew,
          sleep |-> DelayFor(srv.timeout, srv.built),
          callTime |-> at]

\* TimeoutService::call: Either::Right without a timer when the duration is
\* zero, Either::Left with the inner future and a timer otherwise
CallFuture(srv, s, at) ==
    IF srv.timeout = ZERO
    THEN [kind |-> "Right", svc |-> s, fut |-> FutNew, sleep |-> None,
          callTime |-> at]
    ELSE [kind |-> "Left", svc |-> s, fut |-> FutNew,
          sleep |-> DelayFor(srv.timeout, at),
          callTime |-> at]

\* mutant: an inner readiness error is reported as a timeout
MapErrTimeout(r) ==
    IF r.tag = "Ready" /\ r.val.tag = "Err"
    THEN Ready(Err(Timeout))
    ELSE r

\* mutant: an inner readiness error is swallowed
MapErrSwallow(r) ==
    IF r.tag = "Ready" /\ r.val.tag = "Err"
    THEN Ready(OkUnit)
    ELSE r

\* TimeoutService::poll_ready: inner result with the error re-tagged
MapErrService(r) ==
    IF r.tag = "Ready" /\ r.val.tag = "Err"
    THEN Ready(Err(Service(r.val.val)))
    ELSE r

\* mutant: the is_error flag is not passed on
ShutdownGraceful(inner, is_error) == inner[FALSE]

\* mutant: shutdown reports complete without asking the inner service
ShutdownImmediate(inner, is_error) == Ready(Unit)

\* TimeoutService::poll_shutdown: the inner service's poll_shutdown with the
\* same is_error
ShutdownDelegate(inner, is_error) == inner[is_error]

\* mutant: the timer is checked before the inner future
ResponsePollSleepFirst(c, t, driven) ==
    LET sp == DelayPoll(c.sleep, t, driven)
        fp == FutPoll(c.fut) IN
    IF sp.tag = "Ready" THEN <<NotPolled, sp, Ready(Err(Timeout)), <<"sleep">> >>
    ELSE IF fp.tag = "Ready" /\ fp.val.tag = "Ok"
        THEN <<fp, sp, Ready(Ok(fp.val.val)), <<"sleep", "fut">> >>
    ELSE IF fp.tag = "Ready" /\ fp.val.tag = "Err"
        THEN <<fp, sp, Ready(Err(Service(fp.val.val))), <<"sleep", "fut">> >>
    ELSE <<fp, sp, Pending, <<"sleep", "fut">> >>

\* mutant: the timer is polled after the inner future whatever it returned
ResponsePollEager(c, t, driven) ==
    LET fp == FutPoll(c.fut)
        sp == DelayPoll(c.sleep, t, driven) IN
    IF fp.tag = "Ready" /\ fp.val.tag = "Ok"
        THEN <<fp, sp, Ready(Ok(fp.val.val)), <<"fut", "sleep">> >>
    ELSE IF fp.tag = "Ready" /\ fp.val.tag = "Err"
        THEN <<fp, sp, Ready(Err(Service(fp.val.val))), <<"fut", "sleep">> >>
    ELSE IF sp.tag = "Pending" THEN <<fp, sp, Pending, <<"fut", "sleep">> >>
    ELSE <<fp, sp, Ready(Err(Timeout)), <<"fut", "sleep">> >>

\* TimeoutServiceResponse::poll:
\* <<inner poll, timer poll, returned value, the sub-polls made in order>>
ResponsePoll(c, t, driven) ==
    LET fp == FutPoll(c.fut) IN
    IF fp.tag = "Ready" /\ fp.val.tag = "Ok"
        THEN <<fp, NotPolled, Ready(Ok(fp.val.val)), <<"fut">> >>
    ELSE IF fp.tag = "Ready" /\ fp.val.tag = "Err"
        THEN <<fp, NotPolled, Ready(Err(Service(fp.val.val))), <<"fut">> >>
    ELSE LET sp == DelayPoll(c.sleep, t, driven) IN
         IF sp.tag = "Pending" THEN <<fp, sp, Pending, <<"fut", "sleep">> >>
         ELSE <<fp, sp, Ready(Err(Timeout)), <<"fut", "sleep">> >>

\* mutant: an inner error on the zero-duration path loses its payload
Response2PollDropsError(c) ==
    LET fp == FutPoll(c.fut) IN
    IF fp.tag = "Ready" /\ fp.val.tag = "Ok"
        THEN <<fp, NotPolled, Ready(Ok(fp.val.val)), <<"fut">> >>
    ELSE IF fp.tag = "Ready" /\ fp.val.tag = "Err"
        THEN <<fp, NotPolled, Ready(Err(Timeout)), <<"fut">> >>
    ELSE <<fp, NotPolled, Pending, <<"fut">> >>

\* TimeoutServiceResponse2::poll
Response2Poll(c) ==
    LET fp == FutPoll(c.fut) IN
    IF fp.tag = "Ready" /\ fp.val.tag = "Ok"
        THEN <<fp, NotPolled, Ready(Ok(fp.val.val)), <<"fut">> >>
    ELSE IF fp.tag = "Ready" /\ fp.val.tag = "Err"
        THEN <<fp, NotPolled, Ready(Err(Service(fp.val.val))), <<"fut">> >>
    ELSE <<fp, NotPolled, Pending, <<"fut">> >>

\* Either<TimeoutServiceResponse, TimeoutServiceResponse2>::poll
EitherPoll(c, t, driven) ==
    IF c.kind = "Left" THEN ResponsePoll(c, t, driven) ELSE Response2Poll(c)

\* ------------------------------------------------------------------ Lazy
\* the closures F: FnOnce(&mut Context) -> R, as the value returned per context
Closures == [Contexts -> Values]
Panic == [tag |-> "Panic", val |-> "Lazy polled after completion"]
NoLazyEvent == [op |-> "none", lazy |-> 0, cx |-> "-", f |-> None, out |-> NotPolled]

\* lazy(f): Lazy { f: Some(f) }; args lists the contexts f has been invoked
\* with and polls counts the polls of this instance
LazyNew(f) == [f |-> Some(f), args |-> <<>>, polls |-> 0]

\* mutant: the closure is borrowed, not taken out of the Option
LazyPollKeep(lz, cx) ==
    IF lz.f.tag = "Some"
    THEN <<[lz EXCEPT !.args = Append(lz.args, cx), !.polls = lz.polls + 1],
           Ready(lz.f.val[cx])>>
    ELSE <<[lz EXCEPT !.polls = lz.polls + 1], Panic>>

\* Lazy::poll: self.f.take().expect(..) then the call of the closure with cx;
\* <<the Lazy afterwards, returned value>>
LazyPoll(lz, cx) ==
    IF lz.f.tag = "Some"
    THEN <<[f |-> None, args |-> Append(lz.args, cx), polls |-> lz.polls + 1],
           Ready(lz.f.val[cx])>>
    ELSE <<[lz EXCEPT !.f = None, !.polls = lz.polls + 1], Panic>>

\* mutant: after an expiry the response future lives on with its inner future
AfterPollKeepInner(c, out) ==
    IF out = Pending \/ out = Ready(Err(Timeout)) THEN c ELSE NoCall

\* the response future after one poll: Poll::Ready ends it, the caller's
\* .await drops it with its inner future and its timer
AfterPoll(c, out) == IF out = Pending THEN c ELSE NoCall

\* mutant: the timer is shared, an expiry ends every timed response future
PollCallsShared(cs, i, out) ==
    IF out = Ready(Err(Timeout))
    THEN [j \in 1..Len(cs) |-> IF cs[j].kind = "Left" THEN NoCall ELSE cs[j]]
    ELSE [cs EXCEPT ![i] = AfterPoll(cs[i], out)]

\* the response futures after a poll of invocation i: each owns its fut and
\* its sleep, so only the polled one is touched
PollCalls(cs, i, out) == [cs EXCEPT ![i] = AfterPoll(cs[i], out)]

\* mutant: the request is handed to the inner service twice
CallInnerTwice(req) == <<req, req>>

\* self.service.call(request) in TimeoutService::call: the requests handed to
\* the inner service's call, in order
CallInner(req) == <<req>>

\* ----------------------------------------------------------- TimeoutError
TimeoutErrors == {Timeout} \cup {Service(e) : e \in Errors}
NoProbe ==
    [op |-> "none", a |-> None, b |-> None, out |-> FALSE, rev |-> FALSE,
     debug |-> "-", display |-> "-"]

\* E: PartialEq, E: Debug and E: Display of the payload; the payloads are
\* rendered as str is: quoted by Debug, bare by Display
InnerEq(e1, e2) == e1 = e2
InnerDebug(e) == "\"" \o e \o "\""
InnerDisplay(e) == e

\* mutant: equality compares the variants only
TimeoutErrorEqVariant(a, b) == a.tag = b.tag

\* PartialEq for TimeoutError: the nested match of eq
TimeoutErrorEq(a, b) ==
    IF a.tag = "Service"
    THEN (IF b.tag = "Service" THEN InnerEq(a.val, b.val) ELSE FALSE)
    ELSE (IF b.tag = "Service" THEN FALSE ELSE TRUE)

\* mutant: Debug leaves the payload out
TimeoutErrorDebugBare(err) ==
    IF err.tag = "Service"
    THEN "TimeoutError::Service"
    ELSE "TimeoutError::Timeout"

\* Debug for TimeoutError
TimeoutErrorDebug(err) ==
    IF err.tag = "Service"
    THEN "TimeoutError::Service(" \o InnerDebug(err.val) \o ")"
    ELSE "TimeoutError::Timeout"

\* Display for TimeoutError
TimeoutErrorDisplay(err) ==
    IF err.tag = "Service"
    THEN InnerDisplay(err.val)
    ELSE "Service call timeout"

\* -------------------------------------------------------- UpgradeHandler
\* UpgradeHandler(PhantomData): no fields; op, polls and out record the last
\* operation, the poll_ready calls made and the last value returned
UpgradeHandler == [op |-> "none", polls |-> 0, out |-> NotPolled]
\* unimplemented!()
Unimplemented == [tag |-> "Panic", val |-> "not implemented"]

\* mutant: ready on the first poll only
UpgradePollReadyOnce(h, cx) == IF h.polls = 0 THEN Ready(OkUnit) ELSE Pending

\* UpgradeHandler::poll_ready: Poll::Ready(Ok(())), whatever the handler and
\* the context
UpgradePollReady(h, cx) == Ready(OkUnit)

\* UpgradeHandler::call: unimplemented!()
UpgradeCallResult(h, req) == Unimplemented

\* ------------------------------------------------------------------- Init
Init ==
    /\ now = 0
    /\ transform \in {TimeoutNew(d) : d \in Durations}
    /\ services = <<>>
    /\ calls = <<>>
    /\ last = NoEvent
    /\ lazies = <<>>
    /\ lazyLast = NoLazyEvent
    /\ panicked = FALSE
    /\ probe = NoProbe
    /\ upgrade = UpgradeHandler

\* ---------------------------------------------------------------- actions
\* TimeoutService::new(timeout, service)
New(d) ==
    /\ Len(services) < MaxServices
    /\ services' = Append(services, TimeoutServiceNew(d, now))
    /\ last' = [NoEvent EXCEPT !.op = "new", !.svc = Len(services) + 1]
    /\ UNCHANGED <<now, transform, calls, lazyVars, pureVars>>

\* Timeout::new_transform(service)
NewTransform ==
    /\ Len(services) < MaxServices
    /\ services' = Append(services, NewTransformService(transform, now))
    /\ last' = [NoEvent EXCEPT !.op = "new_transform", !.svc = Len(services) + 1,
                               !.out = Ready(Ok(Len(services) + 1))]
    /\ UNCHANGED <<now, transform, calls, lazyVars, pureVars>>

\* TimeoutService::poll_ready; r is what the inner service's poll_ready returns
PollReady(s, r) ==
    /\ s \in 1..Len(services)
    /\ last' = [NoEvent EXCEPT !.op = "poll_ready", !.svc = s, !.inner = r,
                               !.out = MapErrService(r)]
    /\ UNCHANGED <<now, transform, services, calls, lazyVars, pureVars>>

\* TimeoutService::poll_shutdown; f is what the inner service's poll_shutdown
\* returns for each value of is_error
PollShutdown(s, is_error, f) ==
    /\ s \in 1..Len(services)
    /\ last' = [NoEvent EXCEPT !.op = "poll_shutdown", !.svc = s,
                               !.is_error = is_error, !.shut = f,
                               !.out = ShutdownDelegate(f, is_error)]
    /\ UNCHANGED <<now, transform, services, calls, lazyVars, pureVars>>

\* TimeoutService::call
Call(s, req) ==
    /\ s \in 1..Len(services)
    /\ Len(calls) < MaxCalls
    /\ calls' = Append(calls, CallFuture(services[s], s, now))
    /\ last' = [NoEvent EXCEPT !.op = "call", !.svc = s, !.call = Len(calls) + 1,
                               !.req = req, !.innerCalls = CallInner(req)]
    /\ UNCHANGED <<now, transform, services, lazyVars, pureVars>>

\* the inner service completes the inner future of invocation i
InnerComplete(i, outcome) ==
    /\ i \in 1..Len(calls)
    /\ calls[i] # NoCall
    /\ calls[i].fut.state = Pending
    /\ calls' = [calls EXCEPT ![i].fut = [state |-> Ready(outcome), readyAt |-> now]]
    /\ last' = NoEvent
    /\ UNCHANGED <<now, transform, services, lazyVars, pureVars>>

\* one poll of the response future of invocation i; driven tells whether the
\* timer driver has run since the timer became due; a poll has no handle on
\* the inner service, it makes no inner call
Poll(i, driven) ==
    /\ i \in 1..Len(calls)
    /\ calls[i] # NoCall
    /\ LET p == EitherPoll(calls[i], now, driven) IN
       /\ calls' = PollCalls(calls, i, p[3])
       /\ last' = [NoEvent EXCEPT !.op = "poll", !.svc = calls[i].svc, !.call = i,
                                  !.inner = p[1], !.sleep = p[2], !.out = p[3],
                                  !.polled = calls[i], !.order = p[4],
                                  !.timer = DelayReady(calls[i].sleep, now, driven)]
    /\ UNCHANGED <<now, transform, services, lazyVars, pureVars>>

\* time passes
Tick ==
    /\ now < MaxTime
    /\ now' = now + 1
    /\ last' = NoEvent
    /\ UNCHANGED <<transform, services, calls, lazyVars, pureVars>>

Next ==
    \/ \E d \in Durations : New(d)
    \/ NewTransform
    \/ \E s \in 1..MaxServices, r \in InnerReadyResults : PollReady(s, r)
    \/ \E s \in 1..MaxServices, e \in BOOLEAN, f \in InnerShutdowns : PollShutdown(s, e, f)
    \/ \E s \in 1..MaxServices, req \in Requests : Call(s, req)
    \/ \E i \in 1..MaxCalls, o \in InnerOutcomes : InnerComplete(i, o)
    \/ \E i \in 1..MaxCalls, driven \in BOOLEAN : Poll(i, driven)
    \/ Tick

Spec == Init /\ [][Next]_vars

\* --------------------------------------------------------- Clone actions
\* Timeout::clone followed by new_transform(service) on the clone, as in
\* apply(Timeout::new(resolution).clone(), ..); the Timeout itself stays
NewTransformClone ==
    /\ Len(services) < MaxServices
    /\ services' = Append(services, NewTransformService(TimeoutClone(transform), now))
    /\ last' = [NoEvent EXCEPT !.op = "new_transform_clone", !.svc = Len(services) + 1,
                               !.out = Ready(Ok(Len(services) + 1))]
    /\ UNCHANGED <<now, transform, calls, lazyVars, pureVars>>

\* TimeoutService::clone of service s
CloneService(s) ==
    /\ s \in 1..Len(services)
    /\ Len(services) < MaxServices + MaxClones
    /\ services' = Append(services, TimeoutServiceClone(services[s], s, now))
    /\ last' = [NoEvent EXCEPT !.op = "clone", !.svc = Len(services) + 1]
    /\ UNCHANGED <<now, transform, calls, lazyVars, pureVars>>

\* the middleware with clones of its values; the readiness and shutdown
\* probes, which read and write no state, are left out
CloneNext ==
    \/ \E d \in Durations : New(d)
    \/ NewTransform
    \/ NewTransformClone
    \/ \E s \in 1..(MaxServices + MaxClones) : CloneService(s)
    \/ \E s \in 1..(MaxServices + MaxClones), req \in Requests : Call(s, req)
    \/ \E i \in 1..MaxCalls, o \in InnerOutcomes : InnerComplete(i, o)
    \/ \E i \in 1..MaxCalls, driven \in BOOLEAN : Poll(i, driven)
    \/ Tick

SpecClone == Init /\ [][CloneNext]_vars

\* ------------------------------------------------------------- liveness
\* the middleware under a runtime that lets time pass, fires due timers and
\* polls a response future that was woken by its timer; the inner service is
\* free never to complete
LiveNext ==
    \/ \E d \in Durations : New(d)
    \/ NewTransform
    \/ \E s \in 1..MaxServices, req \in Requests : Call(s, req)
    \/ \E i \in 1..MaxCalls, o \in InnerOutcomes : InnerComplete(i, o)
    \/ \E i \in 1..MaxCalls, driven \in BOOLEAN : Poll(i, driven)
    \/ Tick

Fairness ==
    /\ WF_vars(Tick)
    /\ \A i \in 1..MaxCalls : WF_vars(Poll(i, TRUE))

SpecLive == Init /\ [][LiveNext]_vars /\ Fairness

\* ---------------------------------------------------------- Lazy actions
\* lazy(f)
Lazy(f) ==
    /\ ~panicked
    /\ Len(lazies) < MaxLazy
    /\ lazies' = Append(lazies, LazyNew(f))
    /\ lazyLast' = [NoLazyEvent EXCEPT !.op = "lazy", !.lazy = Len(lazies) + 1]
    /\ UNCHANGED <<panicked, timeoutVars, pureVars>>

\* one poll of Lazy instance i with context cx; a panic ends the task
PollLazy(i, cx) ==
    /\ ~panicked
    /\ i \in 1..Len(lazies)
    /\ LET p == LazyPoll(lazies[i], cx) IN
       /\ lazies' = [lazies EXCEPT ![i] = p[1]]
       /\ lazyLast' = [op |-> "poll", lazy |-> i, cx |-> cx, f |-> lazies[i].f,
                       out |-> p[2]]
       /\ panicked' = (p[2] = Panic)
    /\ UNCHANGED <<timeoutVars, pureVars>>

LazyNext ==
    \/ \E f \in Closures : Lazy(f)
    \/ \E i \in 1..MaxLazy, cx \in Contexts : PollLazy(i, cx)

SpecLazy == Init /\ [][LazyNext]_vars

\* ------------------------------------- TimeoutError and UpgradeHandler
\* a == b and b == a
Compare(a, b) ==
    /\ ~panicked
    /\ probe' = [NoProbe EXCEPT !.op = "eq", !.a = a, !.b = b,
                                !.out = TimeoutErrorEq(a, b),
                                !.rev = TimeoutErrorEq(b, a)]
    /\ UNCHANGED <<timeoutVars, lazyVars, upgrade>>

\* format!("{:?}", a) and format!("{}", a)
Format(a) ==
    /\ ~panicked
    /\ probe' = [NoProbe EXCEPT !.op = "fmt", !.a = a,
                                !.debug = TimeoutErrorDebug(a),
                                !.display = TimeoutErrorDisplay(a)]
    /\ UNCHANGED <<timeoutVars, lazyVars, upgrade>>

\* UpgradeHandler::poll_ready
UpgradeReady(cx) ==
    /\ ~panicked
    /\ upgrade.polls < MaxProbes
    /\ upgrade' = [op |-> "poll_ready", polls |-> upgrade.polls + 1,
                   out |-> UpgradePollReady(upgrade, cx)]
    /\ UNCHANGED <<timeoutVars, lazyVars, probe>>

\* UpgradeHandler::call: the panic ends the task, nothing is returned
UpgradeCall(req) ==
    /\ ~panicked
    /\ upgrade' = [upgrade EXCEPT !.op = "call", !.out = UpgradeCallResult(upgrade, req)]
    /\ panicked' = (UpgradeCallResult(upgrade, req).tag = "Panic")
    /\ UNCHANGED <<timeoutVars, lazies, lazyLast, probe>>

PureNext ==
    \/ \E a \in TimeoutErrors, b \in TimeoutErrors : Compare(a, b)
    \/ \E a \in TimeoutErrors : Format(a)
    \/ \E cx \in Contexts : UpgradeReady(cx)
    \/ \E req \in Requests : UpgradeCall(req)

SpecPure == Init /\ [][PureNext]_vars

\* ====================================================================
\* Properties
\* ====================================================================
\* the last operation was a poll of a response future
Polled == last.op = "poll"
\* ... of TimeoutServiceResponse (non-zero duration) / TimeoutServiceResponse2
PolledLeft == Polled /\ services[last.svc].timeout # ZERO
PolledRight == Polled /\ services[last.svc].timeout = ZERO
\* the configured duration d of the polled invocation's service
PolledDur == services[last.svc].timeout
\* time elapsed between the call and this poll (a poll does not advance now)
Elapsed == now - last.polled.callTime
\* the inner future had completed when this poll was made, and its latency t
InnerDone == last.polled.fut.state.tag = "Ready"
Latency == last.polled.fut.readyAt - last.polled.callTime
\* the timer of the polled invocation had fired when this poll was made
TimerReady == last.timer
\* the inner outcome as the middleware must deliver it
Mapped(o) == IF o.tag = "Ok" THEN Ready(Ok(o.val)) ELSE Ready(Err(Service(o.val)))
InnerMapped == Mapped(last.polled.fut.state.val)
Expired == Ready(Err(Timeout))

\* C1 as claimed: with d # 0 and inner latency t, the response future yields the
\* inner outcome if t < d and Err(Timeout) if t >= d (an inner future that has
\* not completed when the response yields has latency beyond that instant).
C1_AsClaimed ==
    (PolledLeft /\ last.out # Pending) =>
        IF InnerDone /\ Latency < PolledDur
        THEN last.out = InnerMapped
        ELSE last.out = Expired

\* C1 amended: with d # 0, if t < d the response future yields the inner outcome;
\* it yields Err(Timeout) only from a poll at an elapsed time e with
\* d <= e < t, and from every such poll that finds the timer fired; a poll at
\* e >= t, which is every yielding poll when t = d, yields the inner outcome;
\* a poll at e < d and e < t is Pending.
C1_Latency ==
    PolledLeft =>
        /\ (InnerDone /\ Latency < PolledDur) => last.out = InnerMapped
        /\ InnerDone => (Latency <= Elapsed /\ last.out = InnerMapped)
        /\ last.out = Expired => (~InnerDone /\ Elapsed >= PolledDur)
        /\ (~InnerDone /\ TimerReady) => last.out = Expired
        /\ (~InnerDone /\ Elapsed < PolledDur) => last.out = Pending

\* the deadline won: polled at d <= e with the inner future still pending
C1_Witness ==
    PolledLeft /\ ~InnerDone /\ Elapsed >= PolledDur /\ last.out = Expired

\* C2: tie-break: a poll of the non-zero-duration response future in which
\* both the inner future and the timer are ready returns the inner outcome;
\* Err(Timeout) is returned only by a poll in which the inner future reported
\* Pending.
C2_TieBreak ==
    PolledLeft =>
        /\ (InnerDone /\ TimerReady) => last.out = InnerMapped
        /\ last.out = Expired => last.inner = Pending

\* both ready in one poll, the inner outcome returned
C2_Witness ==
    PolledLeft /\ InnerDone /\ TimerReady /\ last.out = InnerMapped

\* C3: with a zero duration call creates no timer, the response future is
\* Pending exactly while the inner future is, yields the inner outcome when it
\* completes, and never yields Err(Timeout).
C3_ZeroDisabled ==
    /\ \A i \in 1..Len(calls) :
          (calls[i] # NoCall /\ services[calls[i].svc].timeout = ZERO) =>
              (calls[i].kind = "Right" /\ calls[i].sleep = None)
    /\ PolledRight =>
          /\ last.polled.sleep = None
          /\ last.sleep = NotPolled
          /\ last.out # Expired
          /\ (last.out = Pending) <=> ~InnerDone
          /\ InnerDone => last.out = InnerMapped

\* a zero-duration invocation still Pending long after any configured
\* duration of the model
C3_Witness ==
    PolledRight /\ Elapsed > MaxDur /\ ~InnerDone /\ last.out = Pending

\* C4: whenever a poll of a response future (either path) observes the inner
\* future complete with Err(e) it yields Err(TimeoutError::Service(e)) with
\* the same e, and with Ok(v) it yields Ok(v).
C4_InnerOutcomePreserved ==
    Polled =>
        /\ \A e \in Errors :
              last.inner = Ready(Err(e)) => last.out = Ready(Err(Service(e)))
        /\ \A v \in Values :
              last.inner = Ready(Ok(v)) => last.out = Ready(Ok(v))

\* an inner error observed on the zero-duration path and re-tagged
C4_Witness ==
    PolledRight /\ last.inner = Ready(Err("e2")) /\ last.out = Ready(Err(Service("e2")))

\* C5: Err(Timeout) is returned only by a poll of a response future of a
\* service with non-zero duration d, at least d after the call and with the
\* inner future not completed; no other operation returns it.
C5_TimeoutOnlyOnExpiry ==
    last.out = Expired =>
        /\ last.op = "poll"
        /\ PolledDur # ZERO
        /\ Elapsed >= PolledDur
        /\ ~InnerDone

\* a deadline expiry on the second invocation, late after its own call
C5_Witness ==
    PolledLeft /\ last.call = 2 /\ last.out = Expired /\ Elapsed > PolledDur

\* C6: poll_ready returns the inner poll_ready result with only the error
\* re-tagged, whatever the duration and the invocations in flight.
C6_ReadinessDelegates ==
    last.op = "poll_ready" =>
        /\ last.inner = Pending => last.out = Pending
        /\ last.inner = Ready(OkUnit) => last.out = Ready(OkUnit)
        /\ \A e \in Errors :
              last.inner = Ready(Err(e)) => last.out = Ready(Err(Service(e)))

\* an inner readiness error re-tagged while an invocation is in flight
C6_Witness ==
    /\ last.op = "poll_ready"
    /\ last.inner = Ready(Err("e1"))
    /\ last.out = Ready(Err(Service("e1")))
    /\ \E i \in 1..Len(calls) : calls[i] # NoCall

\* C7 as claimed: poll_shutdown(is_error = true) always returns Ready, also
\* when the inner service's poll_shutdown(true) returns Pending.
C7_AsClaimed ==
    (last.op = "poll_shutdown" /\ last.is_error) => last.out = Ready(Unit)

\* C7 amended: poll_shutdown(is_error = true) returns what the inner
\* service's poll_shutdown(true) returns: Ready at once when the inner service
\* reports Ready for is_error = true, Pending when it reports Pending.
C7_ShutdownOnError ==
    (last.op = "poll_shutdown" /\ last.is_error) =>
        /\ last.shut[TRUE] = Ready(Unit) => last.out = Ready(Unit)
        /\ last.shut[TRUE] = Pending => last.out = Pending

\* an inner service like the tests' SleepService: Ready for is_error = true,
\* Pending otherwise
C7_Witness ==
    /\ last.op = "poll_shutdown" /\ last.is_error
    /\ last.shut[TRUE] = Ready(Unit) /\ last.shut[FALSE] = Pending
    /\ last.out = Ready(Unit)

\* C8: poll_shutdown returns what the inner service's poll_shutdown returns for
\* the same is_error, whatever the duration; for is_error = false it is Pending
\* whenever the inner service reports Pending and Ready only when it reports
\* Ready.
C8_ShutdownDelegates ==
    last.op = "poll_shutdown" =>
        /\ last.out = last.shut[last.is_error]
        /\ ~last.is_error =>
              /\ last.shut[FALSE] = Pending => last.out = Pending
              /\ last.out = Ready(Unit) => last.shut[FALSE] = Ready(Unit)

\* graceful shutdown held back by the inner service although it would report
\* Ready for is_error = true
C8_Witness ==
    /\ last.op = "poll_shutdown" /\ ~last.is_error
    /\ last.shut[FALSE] = Pending /\ last.shut[TRUE] = Ready(Unit)
    /\ last.out = Pending

\* C9: the first poll of a Lazy invokes the closure once, with the polling
\* context, and returns Ready(its value); every later poll panics without
\* invoking the closure and without returning a value.
C9_LazyOneShot ==
    /\ \A i \in 1..Len(lazies) :
          /\ lazies[i].polls = 0 => (lazies[i].f.tag = "Some" /\ lazies[i].args = <<>>)
          /\ lazies[i].polls >= 1 => (lazies[i].f = None /\ Len(lazies[i].args) = 1)
    /\ lazyLast.op = "poll" =>
          LET lz == lazies[lazyLast.lazy] IN
          /\ lz.polls = 1 =>
                /\ lazyLast.f.tag = "Some"
                /\ lz.args = <<lazyLast.cx>>
                /\ lazyLast.out = Ready(lazyLast.f.val[lazyLast.cx])
                /\ ~panicked
          /\ lz.polls > 1 => (lazyLast.f = None /\ lazyLast.out = Panic /\ panicked)

\* a second poll of the same instance has panicked
C9_Witness ==
    /\ lazyLast.op = "poll"
    /\ lazies[lazyLast.lazy].polls = 2
    /\ lazyLast.out = Panic

\* C10: the deadline counts from the call, not from the construction of the
\* service: an invocation made at time T with duration d # 0 does not yield
\* Err(Timeout) before T + d.
C10_DeadlineFromCall ==
    /\ \A i \in 1..Len(calls) :
          (calls[i] # NoCall /\ calls[i].kind = "Left") =>
              calls[i].sleep.val = calls[i].callTime + services[calls[i].svc].timeout
    /\ (PolledLeft /\ Elapsed < PolledDur) => last.out # Expired

\* a poll after the duration has passed since construction but not since the
\* call: not expired
C10_Witness ==
    /\ PolledLeft
    /\ now >= services[last.svc].built + PolledDur
    /\ Elapsed < PolledDur
    /\ ~InnerDone
    /\ last.out = Pending

\* C11: new_transform returns Ready(Ok(service)) at once, never Pending and
\* never an InitError, and the TimeoutService it returns carries exactly the
\* duration of the Timeout.
C11_NewTransformImmediate ==
    last.op = "new_transform" =>
        /\ last.out # Pending
        /\ last.out = Ready(Ok(last.svc))
        /\ last.svc = Len(services)
        /\ services[last.svc].timeout = transform.timeout

\* a service just built from a Timeout of the largest duration, after some
\* time has passed
C11_Witness ==
    /\ last.op = "new_transform"
    /\ now > 0
    /\ transform.timeout = MaxDur
    /\ services[last.svc].timeout = MaxDur

\* C12: a clone of a Timeout and a clone of a TimeoutService carry exactly the
\* duration of the original, so that a call on the clone gets the same
\* deadline treatment (no timer for zero, a timer of the original's duration
\* otherwise), and no operation, on the clone or elsewhere, changes the
\* duration of an existing Timeout or TimeoutService.
C12_CloneSameDuration ==
    /\ last.op = "new_transform_clone" =>
          services[last.svc].timeout = transform.timeout
    /\ \A s \in 1..Len(services) :
          services[s].of # 0 =>
              /\ services[s].of < s
              /\ services[s].timeout = services[services[s].of].timeout
    /\ \A i \in 1..Len(calls) :
          (calls[i] # NoCall /\ services[calls[i].svc].of # 0) =>
              LET d == services[services[calls[i].svc].of].timeout IN
              IF d = ZERO THEN calls[i].sleep = None
              ELSE calls[i].sleep = Some(calls[i].callTime + d)

C12_OriginalUnchanged ==
    /\ transform' = transform
    /\ \A s \in 1..Len(services) : services'[s] = services[s]

C12_Clone == []C12_CloneSameDuration /\ [][C12_OriginalUnchanged]_vars

\* an invocation on a cloned service has expired under the original's
\* duration
C12_Witness ==
    /\ PolledLeft
    /\ services[last.svc].of # 0
    /\ last.out = Expired

\* C13: TimeoutError equality is structural: a == b iff both are Timeout or both
\* are Service with equal payloads; Timeout never equals a Service(e); the
\* relation is symmetric.
C13_StructuralEq ==
    probe.op = "eq" =>
        /\ probe.out <=> \/ (probe.a.tag = "Timeout" /\ probe.b.tag = "Timeout")
                         \/ /\ probe.a.tag = "Service"
                            /\ probe.b.tag = "Service"
                            /\ probe.a.val = probe.b.val
        /\ (probe.a.tag = "Timeout" /\ probe.b.tag = "Service") => ~probe.out
        /\ (probe.a.tag = "Service" /\ probe.b.tag = "Timeout") => ~probe.out
        /\ probe.rev = probe.out

\* two Service values with different payloads have been compared
C13_Witness ==
    /\ probe.op = "eq"
    /\ probe.a.tag = "Service" /\ probe.b.tag = "Service"
    /\ probe.a.val # probe.b.val
    /\ ~probe.out

\* C14: the upgrade placeholder's poll_ready returns Ready(Ok(())) on every
\* call, never Pending and never an error; its call returns nothing and panics.
C14_UpgradePlaceholder ==
    /\ upgrade.op = "poll_ready" =>
          /\ upgrade.out = Ready(OkUnit)
          /\ upgrade.out # Pending
          /\ ~panicked
    /\ upgrade.op = "call" =>
          /\ upgrade.out.tag \notin {"Ready", "Pending"}
          /\ upgrade.out = Unimplemented
          /\ panicked

\* poll_ready has been called more than once
C14_Witness == upgrade.op = "poll_ready" /\ upgrade.polls >= 2

\* C15: Debug renders Service(e) as "TimeoutError::Service(<Debug of e>)" and
\* Timeout as "TimeoutError::Timeout"; Display renders Service(e) as e's own
\* Display text and Timeout as "Service call timeout".
C15_Rendering ==
    probe.op = "fmt" =>
        /\ probe.a = Timeout =>
              /\ probe.debug = "TimeoutError::Timeout"
              /\ probe.display = "Service call timeout"
        /\ probe.a.tag = "Service" =>
              /\ probe.debug = "TimeoutError::Service(" \o InnerDebug(probe.a.val) \o ")"
              /\ probe.display = InnerDisplay(probe.a.val)
        /\ probe.a = Service("e1") =>
              /\ probe.debug = "TimeoutError::Service(\"e1\")"
              /\ probe.display = "e1"

\* a Service value has been rendered
C15_Witness == probe.op = "fmt" /\ probe.a = Service("e1") /\ probe.display = "e1"

\* C16: in one poll of the non-zero-duration response future the inner future is
\* polled exactly once and first, the timer at most once and only when the inner
\* future returned Pending in that poll, and the poll returns Pending exactly
\* when both returned Pending.
C16_PollOrder ==
    PolledLeft =>
        /\ Len(last.order) \in {1, 2}
        /\ last.order[1] = "fut"
        /\ \A k \in 2..Len(last.order) : last.order[k] = "sleep"
        /\ last.inner = FutPoll(last.polled.fut)
        /\ Len(last.order) = 2 <=> last.inner = Pending
        /\ last.sleep # NotPolled <=> Len(last.order) = 2
        /\ last.out = Pending <=> (last.inner = Pending /\ last.sleep = Pending)

\* a poll that asked both the inner future and the timer and suspended
C16_Witness == PolledLeft /\ last.order = <<"fut", "sleep">> /\ last.out = Pending

\* C17: once a poll has returned a result (Err(Timeout) or the inner outcome) the
\* response future is gone with its inner future and its timer: the invocation
\* is never polled again, its inner future never completes later, and no second
\* result is delivered for it.
C17_Dropped == (Polled /\ last.out # Pending) => calls[last.call] = NoCall
C17_NeverAgain ==
    \A i \in 1..Len(calls) : calls[i] = NoCall =>
        /\ calls'[i] = NoCall
        /\ ~(last'.op = "poll" /\ last'.call = i)
C18_OneInnerCall ==
    /\ last.op = "call" =>
          /\ last.innerCalls = <<last.req>>
          /\ last.call = Len(calls)
          /\ calls[last.call].fut = FutNew
          /\ calls[last.call].callTime = now
          /\ calls[last.call].kind = IF services[last.svc].timeout = ZERO
                                     THEN "Right" ELSE "Left"
    /\ Polled => last.innerCalls = <<>>
C18_NoRetry == last'.op = "poll" => Len(calls') = Len(calls)
C18_ExactlyOnce == []C18_OneInnerCall /\ [][C18_NoRetry]_vars

\* a call on the non-zero path has handed its request to the inner service
C18_Witness ==
    /\ last.op = "call" /\ last.req \in Requests
    /\ last.innerCalls = <<last.req>>
    /\ calls[last.call].kind = "Left"

\* C19: invocations on one service are independent: the result of a poll is a
\* function of the polled invocation's own future, timer and the clock, and a
\* step touches at most one invocation, a poll only its own.
C19_OwnOutcome ==
    Polled =>
        /\ last.out = EitherPoll(last.polled, now, last.timer)[3]
        /\ last.polled.kind = "Left" =>
              last.polled.sleep = Some(last.polled.callTime + PolledDur)
C19_NoInterference ==
    /\ \A j \in 1..Len(calls) :
          (last'.op = "poll" /\ last'.call # j) => calls'[j] = calls[j]
    /\ \A j, k \in 1..Len(calls) :
          (calls'[j] # calls[j] /\ calls'[k] # calls[k]) => j = k
C19_Independent == []C19_OwnOutcome /\ [][C19_NoInterference]_vars

\* one invocation expired while another, called at another time on the same
\* service, is still in flight with its timer
C19_Witness ==
    /\ PolledLeft /\ last.out = Expired
    /\ \E j \in 1..Len(calls) :
          /\ j # last.call
          /\ calls[j] # NoCall
          /\ calls[j].svc = last.svc
          /\ calls[j].callTime # last.polled.callTime

\* invocation i is in flight
InFlight(i) == i <= Len(calls) /\ calls[i] # NoCall
\* invocation i has yielded its result
Yielded(i) == i <= Len(calls) /\ calls[i] = NoCall

\* C20: when time passes, due timers fire and woken futures are polled, every
\* invocation with a non-zero duration whose deadline the clock reaches yields a
\* result, whether or not the inner future ever completes; with a zero duration
\* the response is Pending for as long as the inner future is.
C20_Completes ==
    \A i \in 1..MaxCalls :
        (InFlight(i) /\ calls[i].kind = "Left" /\ calls[i].sleep.val <= MaxTime)
            ~> Yielded(i)
C20_ZeroPending == (PolledRight /\ last.inner = Pending) => last.out = Pending
C20_GuaranteedCompletion == C20_Completes /\ []C20_ZeroPending

\* two invocations whose inner futures never completed have both yielded
C20_Witness ==
    /\ Len(calls) = MaxCalls
    /\ \A i \in 1..MaxCalls : Yielded(i)
    /\ PolledLeft /\ last.out = Expired /\ last.polled.fut.state = Pending
    /\ now = MaxTime

====
